---- MODULE Spec2Model ----
(***************************************************************************)
(* A model of the AMPL compiler's generic hash table (hashtable.c) and of  *)
(* the scoped symbol table built on it (symboltable.c), and of the scanner *)
(* (scanner.c).  The hash table is driven on its own by SpecHT, through    *)
(* the symbol table by SpecST and SpecSTR; the scanner by SpecSC, SpecSCL. *)
(*                                                                         *)
(* Pointers are modelled by value.  NULL is the empty tuple; a C string is *)
(* the tuple of its character codes (so no modelled string is empty); a    *)
(* HashTab is a record; a bucket chain is the sequence of its entries,     *)
(* head of the chain first.  Every malloc can fail: an operation takes     *)
(* the number `mem` of its mallocs that succeed before one returns NULL.   *)
(***************************************************************************)
EXTENDS Integers, Sequences, FiniteSets, TLC

VARIABLES
    ht,           \* hash-table harness: the HashTab under test
    ht_call,      \* hash-table harness: what the last ht_insert call met and returned
    inserted,     \* hash-table harness: key -> value of each successful ht_insert
    table,        \* symboltable.c: the active scope, or NULL
    saved_table,  \* symboltable.c: the saved (enclosing) scope, or NULL
    curr_offset,  \* symboltable.c: the running variable count
    st_call,      \* symbol-table harness: the last call and what it returned
    hist,         \* symbol-table harness: what happened since init_symbol_table
    src_file,     \* scanner.c: the characters getc has not yet returned
    ch,           \* scanner.c: the next source character
    cn,           \* scanner.c: the current column number
    ln,           \* scanner.c: the current line number
    token,        \* scanner harness: the Token the caller passes to get_token
    sc_call       \* scanner harness: the input, and what the get_token calls did

htvars == <<ht, ht_call, inserted>>
stvars == <<table, saved_table, curr_offset, st_call, hist>>
scvars == <<src_file, ch, cn, ln, token, sc_call>>
vars == <<ht, ht_call, inserted, table, saved_table, curr_offset, st_call, hist,
          src_file, ch, cn, ln, token, sc_call>>

NULL == <<>>

(* ------------------------------ bounds --------------------------------- *)

\* how many keys of KeyPool the hash-table harness draws its keys from
NumKeys == 4

\* how many names of KeyPool the symbol-table harness declares
NumNames == 2

\* how many subroutine scopes the harness opens without closing one
MaxDepth == 2

\* the width of an int of the scanner in bits (32 in the build)
WordBits == 8

\* the initial capacity of the string buffer of process_string (1024 in
\* scanner.c)
MAX_INIT_STR_LEN == 2

\* the longest identifier (token.h, which sets it, is not among the sources;
\* the longest reserved word has 7 letters)
MAX_ID_LEN == 8

\* the longest digit run, comment text, string text and operator text of
\* the scanner inputs
NumLen == 3

CommentLen == 5

StringLen == 5

OperatorLen == 3

\* how many get_token calls the harness makes at the end of the input
MaxEofCalls == 2

\* the longest input of the scanner runs checked for termination
LiveLen == 3

(* ------------------------------ inputs --------------------------------- *)

\* "a", "swap_xy", "n", "tmp_val", "f", "product", "count1".  Under shift_hash
\* "a", "swap_xy" and "n" share bucket 6 at capacity 13, "n" and "tmp_val"
\* bucket 17 at capacity 31, "f" and "product" bucket 41 at capacity 61; the
\* seven-letter keys make the 32-bit rotation wrap.
KeyPool ==
    << <<97>>,
       <<115, 119, 97, 112, 95, 120, 121>>,
       <<110>>,
       <<116, 109, 112, 95, 118, 97, 108>>,
       <<102>>,
       <<112, 114, 111, 100, 117, 99, 116>>,
       <<99, 111, 117, 110, 116, 49>> >>

Keys == {KeyPool[i] : i \in 1..NumKeys}

\* the values stored by the hash-table harness: two distinct non-NULL pointers
Values == {[type |-> {"TYPE_INTEGER"}, offset |-> 1], [type |-> {"TYPE_INTEGER"}, offset |-> 2]}

Names == {KeyPool[i] : i \in 1..NumNames}

\* the offset field of an IDPropt that nothing has written yet
UNSET == 0 - 1

\* the IDPropt records handed to the symbol table: an integer variable and
\* an integer function, offset not yet written
VariableProps == {[type |-> {"TYPE_INTEGER"}, offset |-> UNSET]}
CallableProps == {[type |-> {"TYPE_CALLABLE", "TYPE_INTEGER"}, offset |-> UNSET]}

\* the mallocs of one ht_insert made by the symbol table: the first fails,
\* or all succeed
InsertMem == {0, NumNames + 2}

\* the mallocs of one ht_init: the HashTab fails, its array fails, both succeed
InitMem == {0, 1, 2}

\* max_loadfactor as an exact fraction: 0.75f as symboltable.c passes it, and
\* two smaller ones under which a few keys already force growth
LoadFactors == {[num |-> 3, den |-> 4], [num |-> 1, den |-> 4], [num |-> 1, den |-> 32]}

\* every malloc an ht_insert can make: the entry, the new bucket array, one
\* node per entry moved by rehash
MemChoices == {0, 1, 2, NumKeys + 2}

(* --------------------------- symboltable.c ----------------------------- *)

\* hash = (hash << 5) | (hash >> 27) on a 32-bit unsigned held as <<high
\* 16 bits, low 16 bits>>
rotl5(h) ==
    << ((h[1] * 32) % 65536) + (h[2] \div 2048),
       ((h[2] * 32) % 65536) + (h[1] \div 2048) >>

\* hash += keystr[i], modulo 2^32
add32(h, c) ==
    LET lo == h[2] + c
    IN  << (h[1] + (lo \div 65536)) % 65536, lo % 65536 >>

RECURSIVE hash_loop(_, _, _)
hash_loop(keystr, i, hash) ==
    IF i > Len(keystr) THEN hash
    ELSE hash_loop(keystr, i + 1, add32(rotl5(hash), keystr[i]))

shift_hash(key, size) ==
    LET h == hash_loop(key, 1, <<0, 0>>)
    IN  (((h[1] % size) * (65536 % size)) + (h[2] % size)) % size

\* strcmp: the difference at the first position where the strings differ,
\* the terminating NUL counting as 0
RECURSIVE strcmp(_, _, _)
strcmp(s1, s2, i) ==
    LET c1 == IF i <= Len(s1) THEN s1[i] ELSE 0
        c2 == IF i <= Len(s2) THEN s2[i] ELSE 0
    IN  IF c1 # c2 THEN c1 - c2
        ELSE IF c1 = 0 THEN 0
        ELSE strcmp(s1, s2, i + 1)

key_strcmp(val1, val2) == strcmp(val1, val2, 1)

(* ----------------------------- hashtable.c ----------------------------- *)

INITIAL_DELTA_INDEX == 4

delta ==
    <<0, 0, 1, 1, 3, 1, 3, 1, 5, 3, 3, 9, 3, 1, 3, 19, 15, 1, 5, 1, 3, 9, 3,
      15, 3, 39, 5, 39, 57, 3, 35, 1>>

\* talloc: tsize empty buckets
talloc(tsize) == [i \in 0..(tsize - 1) |-> <<>>]

\* ht_init makes two mallocs (the HashTab, its bucket array).  The array
\* has 1 << INITIAL_DELTA_INDEX slots, of which only 0..size-1 are ever
\* indexed, so the model keeps those.
ht_init(loadfactor, mem) ==
    IF mem < 2 THEN NULL
    ELSE [table |-> talloc(13),
          size |-> 13,
          num_entries |-> 0,
          idx |-> INITIAL_DELTA_INDEX,
          max_loadfactor |-> loadfactor]

RECURSIVE getsize_loop(_, _, _)
getsize_loop(size_now, number, pow) ==
    IF number < size_now THEN getsize_loop(size_now, number * 2, pow + 1)
    ELSE <<number, pow>>

\* getsize without the pow++ of line 217: delta is read one entry too low
getsize_samepow(h) ==
    LET r == getsize_loop(h.size, 2, 1)
        number == r[1]
        pow == r[2]
    IN  number * 2 - delta[pow + 1]

getsize(h) ==
    LET r == getsize_loop(h.size, 2, 1)
        number == r[1]
        pow == r[2] + 1
    IN  number * 2 - delta[pow + 1]

\* A loop over the buckets j, j+1, ..., size-1 whose body walks the chain
\* (while (p != NULL) ...) does nothing at an empty bucket: next_chain is the
\* next bucket from j on where the body runs, or size when the loop ends.
next_chain(h, j) ==
    LET rest == {i \in j..(h.size - 1) : h.table[i] # <<>>}
    IN  IF rest = {} THEN h.size
        ELSE CHOOSE i \in rest : \A k \in rest : i <= k

\* the number of entry nodes in the chains of h
RECURSIVE chain_nodes(_, _)
chain_nodes(h, j) ==
    LET i == next_chain(h, j)
    IN  IF i >= h.size THEN 0 ELSE Len(h.table[i]) + chain_nodes(h, i + 1)

\* rehash's inner loop stopping one node early, as with the loop condition
\* current_ent->next_ptr != NULL: the last node of each chain is not copied
RECURSIVE rehash_chain_droplast(_, _, _)
rehash_chain_droplast(chain, updated_size, future_table) ==
    IF chain = <<>> \/ Tail(chain) = <<>> THEN future_table
    ELSE LET current_ent == Head(chain)
             new_hash_val == shift_hash(current_ent.key, updated_size)
             newest_ent == [key |-> current_ent.key, value |-> current_ent.value]
         IN  rehash_chain_droplast(Tail(chain), updated_size,
                 [future_table EXCEPT ![new_hash_val] = <<newest_ent>> \o @])

\* the inner while loop of rehash: every node of one old chain is copied to
\* the front of its new bucket
RECURSIVE rehash_chain(_, _, _)
rehash_chain(chain, updated_size, future_table) ==
    IF chain = <<>> THEN future_table
    ELSE LET current_ent == Head(chain)
             new_hash_val == shift_hash(current_ent.key, updated_size)
             newest_ent == [key |-> current_ent.key, value |-> current_ent.value]
         IN  rehash_chain(Tail(chain), updated_size,
                 [future_table EXCEPT ![new_hash_val] = <<newest_ent>> \o @])

\* the for loop of rehash over the old buckets
RECURSIVE rehash_buckets(_, _, _, _)
rehash_buckets(h, j, updated_size, future_table) ==
    LET i == next_chain(h, j)
    IN  IF i >= h.size THEN future_table
        ELSE rehash_buckets(h, i + 1, updated_size,
                 rehash_chain(h.table[i], updated_size, future_table))

\* rehash installing the new array although a node malloc failed: the nodes
\* not yet copied are lost
rehash_partial(h, mem) ==
    LET updated_size == getsize(h)
    IN  IF mem < 1 THEN h
        ELSE IF mem < 1 + chain_nodes(h, 0)
        THEN [h EXCEPT !.table = talloc(updated_size), !.size = updated_size]
        ELSE [h EXCEPT
                 !.table = rehash_buckets(h, 0, updated_size, talloc(updated_size)),
                 !.size = updated_size]

\* rehash mallocs the new array, then one node per entry; when any of them
\* fails it returns with ht untouched
rehash(h, mem) ==
    LET updated_size == getsize(h)
    IN  IF mem < 1 + chain_nodes(h, 0) THEN h
        ELSE [h EXCEPT
                 !.table = rehash_buckets(h, 0, updated_size, talloc(updated_size)),
                 !.size = updated_size]

\* does the chain hold a key equal to key under key_strcmp?
RECURSIVE chain_find(_, _)
chain_find(chain, key) ==
    IF chain = <<>> THEN NULL
    ELSE IF key_strcmp(key, Head(chain).key) = 0 THEN Head(chain).value
    ELSE chain_find(Tail(chain), key)

\* ht_insert without line 110: the bucket is not recomputed after rehash
ht_insert_stalehash(h, key, value, mem) ==
    IF h = NULL \/ key = NULL \/ value = NULL
    THEN [ht |-> h, ret |-> "EXIT_FAILURE"]
    ELSE IF mem < 1
    THEN [ht |-> h, ret |-> "EXIT_FAILURE"]
    ELSE
        LET grow == (h.num_entries + 1) * h.max_loadfactor.den
                        > h.max_loadfactor.num * h.size
            h1 == IF grow THEN rehash(h, mem - 1) ELSE h
            hash_val == shift_hash(key, h.size)
            entering_entry == [key |-> key, value |-> value]
        IN  IF chain_find(h1.table[hash_val], key) # NULL
            THEN [ht |-> h1, ret |-> "HASH_TABLE_KEY_VALUE_PAIR_EXISTS"]
            ELSE [ht |-> [h1 EXCEPT
                             !.table[hash_val] = <<entering_entry>> \o @,
                             !.num_entries = @ + 1],
                  ret |-> "EXIT_SUCCESS"]

\* a chain with the value of the node holding key replaced
RECURSIVE chain_store(_, _, _)
chain_store(chain, key, value) ==
    IF chain = <<>> THEN <<>>
    ELSE IF key_strcmp(key, Head(chain).key) = 0
    THEN <<[key |-> Head(chain).key, value |-> value]>> \o Tail(chain)
    ELSE <<Head(chain)>> \o chain_store(Tail(chain), key, value)

\* ht_insert storing the new value in the node of a key already present
ht_insert_overwrite(h, key, value, mem) ==
    IF h = NULL \/ key = NULL \/ value = NULL
    THEN [ht |-> h, ret |-> "EXIT_FAILURE"]
    ELSE IF mem < 1
    THEN [ht |-> h, ret |-> "EXIT_FAILURE"]
    ELSE
        LET grow == (h.num_entries + 1) * h.max_loadfactor.den
                        > h.max_loadfactor.num * h.size
            h1 == IF grow THEN rehash(h, mem - 1) ELSE h
            hash_val == IF grow THEN shift_hash(key, h1.size)
                        ELSE shift_hash(key, h.size)
            entering_entry == [key |-> key, value |-> value]
        IN  IF chain_find(h1.table[hash_val], key) # NULL
            THEN [ht |-> [h1 EXCEPT !.table[hash_val] = chain_store(@, key, value)],
                  ret |-> "HASH_TABLE_KEY_VALUE_PAIR_EXISTS"]
            ELSE [ht |-> [h1 EXCEPT
                             !.table[hash_val] = <<entering_entry>> \o @,
                             !.num_entries = @ + 1],
                  ret |-> "EXIT_SUCCESS"]

\* the result of ht_insert: the table afterwards and the return value
ht_insert(h, key, value, mem) ==
    IF h = NULL \/ key = NULL \/ value = NULL
    THEN [ht |-> h, ret |-> "EXIT_FAILURE"]
    ELSE IF mem < 1
    THEN [ht |-> h, ret |-> "EXIT_FAILURE"]
    ELSE
        LET grow == (h.num_entries + 1) * h.max_loadfactor.den
                        > h.max_loadfactor.num * h.size
            h1 == IF grow THEN rehash(h, mem - 1) ELSE h
            hash_val == IF grow THEN shift_hash(key, h1.size)
                        ELSE shift_hash(key, h.size)
            entering_entry == [key |-> key, value |-> value]
        IN  IF chain_find(h1.table[hash_val], key) # NULL
            THEN [ht |-> h1, ret |-> "HASH_TABLE_KEY_VALUE_PAIR_EXISTS"]
            ELSE [ht |-> [h1 EXCEPT
                             !.table[hash_val] = <<entering_entry>> \o @,
                             !.num_entries = @ + 1],
                  ret |-> "EXIT_SUCCESS"]

ht_search(h, key) ==
    IF h = NULL \/ key = NULL THEN NULL
    ELSE chain_find(h.table[shift_hash(key, h.size)], key)

(* ------------------------- hash-table harness -------------------------- *)

\* the load check of ht_insert (lines 104-107)
growth_due(h) ==
    (h.num_entries + 1) * h.max_loadfactor.den > h.max_loadfactor.num * h.size

\* which malloc of an ht_insert call returned NULL, given that the first
\* mem of them succeed
failed_malloc(h, mem) ==
    IF mem < 1 THEN "entry"
    ELSE IF growth_due(h) /\ mem - 1 < 1 + chain_nodes(h, 0) THEN "rehash"
    ELSE "none"

\* the scanner before init_scanner
SCIdle ==
    /\ src_file = <<>>
    /\ ch = 0
    /\ cn = 0
    /\ ln = 0
    /\ token = [type |-> "none", value |-> 0, lexeme |-> <<>>, string |-> <<>>]
    /\ sc_call = [input |-> <<>>, calls |-> 0, at_eof |-> 0, reported |-> <<>>,
                  halted |-> FALSE, stores |-> <<>>, tokens |-> <<>>]

STIdle ==
    /\ table = NULL
    /\ saved_table = NULL
    /\ curr_offset = 0
    /\ st_call = [op |-> "none", ret |-> FALSE, gone |-> {}]
    /\ hist = [init |-> FALSE, depth |-> 0, clean |-> TRUE, live |-> 0,
               fresh |-> FALSE, var_order |-> <<>>, global_names |-> {}]

InitHT ==
    /\ STIdle
    /\ SCIdle
    /\ ht \in {ht_init(lf, 2) : lf \in LoadFactors}
    /\ ht_call = [present |-> FALSE, due |-> FALSE, failed |-> "none", ret |-> "none"]
    /\ inserted = [k \in Keys |-> NULL]

HtInsert ==
    \E key \in Keys, value \in Values, mem \in MemChoices :
        \E r \in {ht_insert(ht, key, value, mem)} :
            /\ ht' = r.ht
            /\ ht_call' = [present |-> inserted[key] # NULL,
                           due |-> growth_due(ht),
                           failed |-> failed_malloc(ht, mem),
                           ret |-> r.ret]
            /\ inserted' = IF r.ret = "EXIT_SUCCESS"
                           THEN [inserted EXCEPT ![key] = value]
                           ELSE inserted
            /\ UNCHANGED <<stvars, scvars>>

NextHT == HtInsert

SpecHT == InitHT /\ [][NextHT]_vars

(* --------------------------- hash-table claims -------------------------- *)

\* every node of h: bucket by bucket, each chain from its head
RECURSIVE all_nodes(_, _)
all_nodes(h, j) ==
    LET i == next_chain(h, j)
    IN  IF i >= h.size THEN <<>> ELSE h.table[i] \o all_nodes(h, i + 1)

IsSuffix(s, t) ==
    /\ Len(s) <= Len(t)
    /\ SubSeq(t, Len(t) - Len(s) + 1, Len(t)) = s

\* C1: after any run of ht_insert calls, growth steps included, ht_search of
\* every key inserted with success returns the value inserted with it, and
\* ht_search of a key never inserted returns NULL.
C1_GrowthPreservesEntries ==
    \A k \in Keys : ht_search(ht, k) = inserted[k]

\* C1 witness: the table has grown at least twice and holds three keys, with
\* a key of the harness never inserted.
C1_Witness ==
    /\ ht.size >= 61
    /\ ht.num_entries >= 3
    /\ \E k \in Keys : inserted[k] = NULL

\* C2: after every ht_insert that returns success or already-exists,
\* num_entries / size <= max_loadfactor.
C2_LoadFactorInvariant ==
    ht_call.ret \in {"EXIT_SUCCESS", "HASH_TABLE_KEY_VALUE_PAIR_EXISTS"}
        => ht.num_entries * ht.max_loadfactor.den <= ht.max_loadfactor.num * ht.size

\* C3: no two nodes anywhere in the bucket array hold keys equal under the
\* compare function, and num_entries is the number of nodes in the chains.
C3_KeyUniqueness ==
    LET nodes == all_nodes(ht, 0)
    IN  /\ \A i, j \in 1..Len(nodes) :
               i < j => key_strcmp(nodes[i].key, nodes[j].key) # 0
        /\ ht.num_entries = Len(nodes)

\* C3 witness: a grown table holding every key of the harness, two of them in
\* one chain, right after an insert of a key already present.
C3_Witness ==
    /\ ht.size > 13
    /\ ht.num_entries = NumKeys
    /\ ht_call.present
    /\ \E j \in 0..(ht.size - 1) : Len(ht.table[j]) >= 2

\* C4 as stated: every ht_insert of a key already present returns the
\* already-exists result, leaves num_entries unchanged and leaves every
\* stored value, that key's included, as it was.
C4_DuplicateAlwaysExists ==
    [][ht_call'.present =>
          /\ ht_call'.ret = "HASH_TABLE_KEY_VALUE_PAIR_EXISTS"
          /\ ht'.num_entries = ht.num_entries
          /\ \A k \in Keys : ht_search(ht', k) = inserted[k]]_vars

\* C4 amended: an ht_insert of a key already present returns the
\* already-exists result unless the malloc of its entry node (line 95, made
\* before the key is looked up) fails, and then it returns EXIT_FAILURE; in
\* both cases num_entries and every stored value are unchanged, also when
\* the call grows the table.
C4_DuplicateInsert ==
    [][ht_call'.present =>
          /\ ht_call'.ret = IF ht_call'.failed = "entry" THEN "EXIT_FAILURE"
                            ELSE "HASH_TABLE_KEY_VALUE_PAIR_EXISTS"
          /\ ht'.num_entries = ht.num_entries
          /\ \A k \in Keys : ht_search(ht', k) = inserted[k]]_vars

\* C4 witness: an insert of a key already present has grown the table and
\* returned already-exists.
C4_Witness ==
    /\ ht_call.present
    /\ ht_call.due
    /\ ht_call.failed = "none"
    /\ ht.size > 13
    /\ ht_call.ret = "HASH_TABLE_KEY_VALUE_PAIR_EXISTS"

\* C5: when a malloc fails inside rehash, the call leaves the capacity as it
\* was, leaves every chain as it was but for the node the call itself may
\* push in front, finds every key inserted before with its value, and still
\* completes as an insert (success or already-exists).
C5_GrowthFailureKeepsTable ==
    [][ht_call'.failed = "rehash" =>
          /\ ht'.size = ht.size
          /\ \A j \in 0..(ht.size - 1) :
                 /\ IsSuffix(ht.table[j], ht'.table[j])
                 /\ Len(ht'.table[j]) <= Len(ht.table[j]) + 1
          /\ \A k \in Keys : inserted[k] # NULL => ht_search(ht', k) = inserted[k]
          /\ ht_call'.ret \in {"EXIT_SUCCESS", "HASH_TABLE_KEY_VALUE_PAIR_EXISTS"}]_vars

\* C5 witness: a growth failed on a table holding three keys, and the insert
\* that met it went through.
C5_Witness ==
    /\ ht_call.failed = "rehash"
    /\ ht_call.ret = "EXIT_SUCCESS"
    /\ ht.num_entries >= 3

\* 2^k - delta[k], the capacity that belongs to the power of two 2^k
Form(k) == 2^k - delta[k + 1]

\* the powers of two whose capacity TLC's 32-bit integers hold
Powers == 0..30

\* the capacities 2^k - delta[k], and the plain powers of two
Capacities == {Form(k) : k \in Powers}

PlainPowers == {2^k : k \in Powers}

\* getsize on a table of capacity 2^k - delta[k], for the k from that of 13 up
GetsizeProgression == \A k \in 4..29 : getsize([size |-> Form(k)]) = Form(k + 1)

\* C18: every capacity the table takes is 2^k - delta[k] for some k and no
\* power of two; a step that changes the capacity makes it the smallest
\* such value above the old one, so it grows; and getsize maps each capacity
\* of the progression from 13 on to the next one.
C18_CapacityProgression ==
    [][/\ {ht.size, ht'.size} \subseteq Capacities \ PlainPowers
       /\ ht'.size # ht.size =>
              /\ ht'.size > ht.size
              /\ \A c \in Capacities : c > ht.size => ht'.size <= c
       /\ GetsizeProgression]_vars

\* C18 witness: the table has grown four times, from 13 to 251.
C18_Witness ==
    /\ ht # NULL
    /\ ht.size = 251
    /\ ht_call.due

(* ------------------------ symboltable.c interface ----------------------- *)

\* the macros of valtypes.h: a type is the set of its flags
IS_CALLABLE_TYPE(type) == "TYPE_CALLABLE" \in type

IS_VARIABLE(type) == ~IS_CALLABLE_TYPE(type)

\* what a HashTab pointer of the symbol table points to: the HashTab, a tag
\* for the call that allocated it (init_symbol_table: "global",
\* open_subroutine: "subroutine") and whether ht_free has freed it
scope(h, origin) ==
    IF h = NULL THEN NULL ELSE [ht |-> h, origin |-> origin, freed |-> FALSE]

\* the HashTab behind a pointer of the symbol table
tab(t) == IF t = NULL THEN NULL ELSE t.ht

\* the three static variables of symboltable.c
SymTab == [table |-> table, saved_table |-> saved_table, curr_offset |-> curr_offset]

\* 0.75f
ST_LOADFACTOR == [num |-> 3, den |-> 4]

init_symbol_table(st, mem) ==
    [table |-> scope(ht_init(ST_LOADFACTOR, mem), "global"),
     saved_table |-> NULL,
     curr_offset |-> 1]

open_subroutine(st, id, prop, mem_insert, mem_init) ==
    IF st.table = NULL THEN [st |-> st, ret |-> FALSE]
    ELSE
        LET r == ht_insert(st.table.ht, id, prop, mem_insert)
            t1 == [st.table EXCEPT !.ht = r.ht]
            fresh_table == scope(ht_init(ST_LOADFACTOR, mem_init), "subroutine")
        IN  IF r.ret # "EXIT_SUCCESS"
            THEN [st |-> [st EXCEPT !.table = t1], ret |-> FALSE]
            ELSE IF fresh_table = NULL
            THEN [st |-> [st EXCEPT !.table = NULL, !.saved_table = t1],
                  ret |-> FALSE]
            ELSE [st |-> [table |-> fresh_table, saved_table |-> t1, curr_offset |-> 1],
                  ret |-> TRUE]

\* ht_free(table, free, freeprop): the table is freed, the pointer is left
release_symbol_table(st) ==
    IF st.table # NULL THEN [st EXCEPT !.table.freed = TRUE] ELSE st

\* close_subroutine forgetting line 72: the freed table stays the active one
close_subroutine_norestore(st) ==
    IF st.table # NULL
    THEN [release_symbol_table(st) EXCEPT !.saved_table = NULL, !.curr_offset = 0]
    ELSE [st EXCEPT !.curr_offset = 0]

close_subroutine(st) ==
    IF st.table # NULL
    THEN [release_symbol_table(st) EXCEPT
             !.table = st.saved_table,
             !.saved_table = NULL,
             !.curr_offset = 0]
    ELSE [st EXCEPT !.curr_offset = 0]

\* insert_name with prop->offset = ++curr_offset
insert_name_preinc(st, id, prop, mem) ==
    IF st.table = NULL THEN [st |-> st, ret |-> FALSE]
    ELSE
        LET r == ht_insert(st.table.ht, id, prop, mem)
            t1 == [st.table EXCEPT !.ht = r.ht]
        IN  IF r.ret # "EXIT_SUCCESS"
            THEN [st |-> [st EXCEPT !.table = t1], ret |-> FALSE]
            ELSE IF IS_VARIABLE(prop.type)
            THEN [st |-> [st EXCEPT
                             !.table = [t1 EXCEPT
                                 !.ht.table[shift_hash(id, r.ht.size)] =
                                     chain_store(@, id,
                                         [prop EXCEPT !.offset = st.curr_offset + 1])],
                             !.curr_offset = @ + 1],
                  ret |-> TRUE]
            ELSE [st |-> [st EXCEPT !.table = t1], ret |-> TRUE]

\* insert_name taking the already-exists result of ht_insert for success: the
\* offset is written into the caller's prop and the counter moves on
insert_name_nodupcheck(st, id, prop, mem) ==
    IF st.table = NULL THEN [st |-> st, ret |-> FALSE]
    ELSE
        LET r == ht_insert(st.table.ht, id, prop, mem)
            t1 == [st.table EXCEPT !.ht = r.ht]
        IN  IF r.ret = "EXIT_FAILURE"
            THEN [st |-> [st EXCEPT !.table = t1], ret |-> FALSE]
            ELSE IF IS_VARIABLE(prop.type)
            THEN [st |-> [st EXCEPT
                             !.table = IF r.ret = "EXIT_SUCCESS"
                                       THEN [t1 EXCEPT
                                           !.ht.table[shift_hash(id, r.ht.size)] =
                                               chain_store(@, id,
                                                   [prop EXCEPT !.offset = st.curr_offset])]
                                       ELSE t1,
                             !.curr_offset = @ + 1],
                  ret |-> TRUE]
            ELSE [st |-> [st EXCEPT !.table = t1], ret |-> TRUE]

\* prop is the pointer ht_insert has just stored, so the write of line 91
\* changes the value held by the node of id
insert_name(st, id, prop, mem) ==
    IF st.table = NULL THEN [st |-> st, ret |-> FALSE]
    ELSE
        LET r == ht_insert(st.table.ht, id, prop, mem)
            t1 == [st.table EXCEPT !.ht = r.ht]
        IN  IF r.ret # "EXIT_SUCCESS"
            THEN [st |-> [st EXCEPT !.table = t1], ret |-> FALSE]
            ELSE IF IS_VARIABLE(prop.type)
            THEN [st |-> [st EXCEPT
                             !.table = [t1 EXCEPT
                                 !.ht.table[shift_hash(id, r.ht.size)] =
                                     chain_store(@, id,
                                         [prop EXCEPT !.offset = st.curr_offset])],
                             !.curr_offset = @ + 1],
                  ret |-> TRUE]
            ELSE [st |-> [st EXCEPT !.table = t1], ret |-> TRUE]

\* find_name without the test of line 103: any entry of the saved scope is found
find_name_nofilter(st, id) ==
    LET prop == ht_search(tab(st.table), id)
    IN  IF prop = NULL /\ st.saved_table # NULL
        THEN ht_search(tab(st.saved_table), id)
        ELSE prop

\* *prop as find_name leaves it; find_name returns TRUE iff it is not NULL
find_name(st, id) ==
    LET prop == ht_search(tab(st.table), id)
    IN  IF prop = NULL /\ st.saved_table # NULL
        THEN LET enclosing == ht_search(tab(st.saved_table), id)
             IN  IF enclosing # NULL /\ ~IS_CALLABLE_TYPE(enclosing.type)
                 THEN NULL
                 ELSE enclosing
        ELSE prop

get_variables_width(st) == st.curr_offset

(* ------------------------- symbol-table harness ------------------------- *)

\* the names held by the nodes of a scope
names_in(t) ==
    IF t = NULL THEN {}
    ELSE LET nodes == all_nodes(t.ht, 0)
         IN  {nodes[i].key : i \in 1..Len(nodes)}

IsGlobal(t) == t # NULL /\ t.origin = "global"

InitST ==
    /\ STIdle
    /\ SCIdle
    /\ ht = NULL
    /\ ht_call = [present |-> FALSE, due |-> FALSE, failed |-> "none", ret |-> "none"]
    /\ inserted = [k \in Keys |-> NULL]

\* eprintf does not return, so the call returns only when ht_init succeeded
InitSymbolTable ==
    \E mem \in InitMem :
        \E r \in {init_symbol_table(SymTab, mem)} :
            /\ r.table # NULL
            /\ table' = r.table
            /\ saved_table' = r.saved_table
            /\ curr_offset' = r.curr_offset
            /\ st_call' = [op |-> "init", ret |-> TRUE, gone |-> {}]
            /\ hist' = [init |-> TRUE, depth |-> 0, clean |-> TRUE, live |-> 1,
                        fresh |-> TRUE, var_order |-> <<>>, global_names |-> {}]
            /\ UNCHANGED <<htvars, scvars>>

OpenSubroutine ==
    /\ hist.depth < MaxDepth
    /\ \E id \in Names, prop \in CallableProps, mem_insert \in InsertMem,
          mem_init \in InitMem :
        \E r \in {open_subroutine(SymTab, id, prop, mem_insert, mem_init)} :
            LET stored == r.ret \/ (table # NULL /\ r.st.table = NULL)
            IN  /\ table' = r.st.table
                /\ saved_table' = r.st.saved_table
                /\ curr_offset' = r.st.curr_offset
                /\ st_call' = [op |-> "open", ret |-> r.ret, gone |-> {}]
                /\ hist' =
                       IF r.ret
                       THEN [hist EXCEPT
                                !.depth = @ + 1,
                                !.live = @ + 1,
                                !.fresh = TRUE,
                                !.var_order = <<>>,
                                !.global_names =
                                    IF IsGlobal(table) THEN @ \cup {id} ELSE @]
                       ELSE IF stored
                       THEN [hist EXCEPT
                                !.clean = FALSE,
                                !.fresh = FALSE,
                                !.var_order = <<>>,
                                !.global_names =
                                    IF IsGlobal(table) THEN @ \cup {id} ELSE @]
                       ELSE hist
                /\ UNCHANGED <<htvars, scvars>>

CloseSubroutine ==
    \E r \in {close_subroutine(SymTab)} :
        /\ table' = r.table
        /\ saved_table' = r.saved_table
        /\ curr_offset' = r.curr_offset
        /\ st_call' = [op |-> "close", ret |-> TRUE,
                       gone |-> names_in(table) \ names_in(saved_table)]
        /\ hist' = [hist EXCEPT
                       !.depth = IF @ > 0 THEN @ - 1 ELSE 0,
                       !.clean = @ /\ hist.depth > 0,
                       !.live = IF table # NULL THEN @ - 1 ELSE @,
                       !.fresh = FALSE,
                       !.var_order = <<>>]
        /\ UNCHANGED <<htvars, scvars>>

InsertName ==
    \E id \in Names, prop \in VariableProps \cup CallableProps, mem \in InsertMem :
        \E r \in {insert_name(SymTab, id, prop, mem)} :
            /\ table' = r.st.table
            /\ saved_table' = r.st.saved_table
            /\ curr_offset' = r.st.curr_offset
            /\ st_call' = [op |-> "insert", ret |-> r.ret, gone |-> {}]
            /\ hist' =
                   IF r.ret
                   THEN [hist EXCEPT
                            !.var_order =
                                IF hist.fresh /\ IS_VARIABLE(prop.type)
                                THEN Append(@, id) ELSE @,
                            !.global_names =
                                IF IsGlobal(table) THEN @ \cup {id} ELSE @]
                   ELSE hist
            /\ UNCHANGED <<htvars, scvars>>

NextST ==
    \/ InitSymbolTable
    \/ OpenSubroutine
    \/ CloseSubroutine
    \/ InsertName

SpecST == InitST /\ [][NextST]_vars

\* a pointer of the symbol table to a table that ht_free has freed
Dangling(t) == t # NULL /\ t.freed

\* release_symbol_table called by the user of the symbol table
ReleaseSymbolTable ==
    \E r \in {release_symbol_table(SymTab)} :
        /\ table' = r.table
        /\ saved_table' = r.saved_table
        /\ curr_offset' = r.curr_offset
        /\ st_call' = [op |-> "release", ret |-> TRUE, gone |-> names_in(table)]
        /\ hist' = [hist EXCEPT
                       !.clean = FALSE,
                       !.live = IF table # NULL THEN @ - 1 ELSE @,
                       !.fresh = FALSE,
                       !.var_order = <<>>]
        /\ UNCHANGED <<htvars, scvars>>

\* The symbol table with release_symbol_table among its calls.  A call that
\* hands a freed table to ht_insert, ht_search or ht_free has no defined
\* outcome, so a behaviour goes on from such a state only by
\* init_symbol_table, which overwrites both pointers without reading them.
NextSTR ==
    \/ /\ ~Dangling(table)
       /\ ~Dangling(saved_table)
       /\ (NextST \/ ReleaseSymbolTable)
    \/ /\ Dangling(table) \/ Dangling(saved_table)
       /\ InitSymbolTable

SpecSTR == InitST /\ [][NextSTR]_vars

(* -------------------------- symbol-table claims ------------------------- *)

\* the value held by the node of name in scope t, found by scanning every
\* chain; NULL when no node holds name
entry_of(t, name) ==
    IF t = NULL THEN NULL
    ELSE LET nodes == all_nodes(t.ht, 0)
             at == {i \in 1..Len(nodes) : nodes[i].key = name}
         IN  IF at = {} THEN NULL ELSE nodes[CHOOSE i \in at : TRUE].value

\* C6: in a scope that has been the active one since init_symbol_table or a
\* successful open_subroutine created it, the i-th variable name inserted
\* holds offset i, and get_variables_width is the number of variables
\* inserted plus one.
C6_OffsetRoundTrip ==
    (hist.fresh /\ table # NULL) =>
        /\ \A i \in 1..Len(hist.var_order) :
               /\ entry_of(table, hist.var_order[i]) # NULL
               /\ entry_of(table, hist.var_order[i]).offset = i
        /\ get_variables_width(SymTab) = Len(hist.var_order) + 1

\* C6 witness: a subroutine scope, fresh from open_subroutine, into which
\* every name of the harness has been inserted as a variable.
C6_Witness ==
    /\ hist.fresh
    /\ table # NULL
    /\ table.origin = "subroutine"
    /\ Len(hist.var_order) = NumNames

\* C7: in every live scope, active or saved, the offsets of the variables
\* are pairwise distinct and are exactly 1..k for its k variables, and no
\* callable holds an offset.
C7_OffsetsDense ==
    \A t \in {table, saved_table} \ {NULL} :
        /\ \A n \in names_in(t) :
               IS_CALLABLE_TYPE(entry_of(t, n).type) => entry_of(t, n).offset = UNSET
        /\ LET vs == {n \in names_in(t) : IS_VARIABLE(entry_of(t, n).type)}
           IN  {entry_of(t, n).offset : n \in vs} = 1..Cardinality(vs)

\* C8: find_name returns the entry of the active scope when it has one;
\* otherwise the entry of the saved scope when that entry is a callable;
\* otherwise nothing.
C8_CrossScopeVisibility ==
    \A n \in Names :
        LET active == entry_of(table, n)
            enclosing == entry_of(saved_table, n)
        IN  find_name(SymTab, n) =
                IF active # NULL THEN active
                ELSE IF enclosing # NULL /\ IS_CALLABLE_TYPE(enclosing.type) THEN enclosing
                ELSE NULL

\* C8 witness: inside a subroutine scope, with a callable and a variable in
\* the saved scope that the active scope does not declare.
C8_Witness ==
    /\ table # NULL
    /\ saved_table # NULL
    /\ \E f, v \in Names :
           /\ entry_of(table, f) = NULL
           /\ entry_of(table, v) = NULL
           /\ entry_of(saved_table, f) # NULL
           /\ IS_CALLABLE_TYPE(entry_of(saved_table, f).type)
           /\ entry_of(saved_table, v) # NULL
           /\ IS_VARIABLE(entry_of(saved_table, v).type)

\* C9: a close_subroutine made with a subroutine scope active over a saved
\* scope makes the saved scope the active one, empties the saved slot, and
\* leaves no name findable that only the closed scope declared.
C9_ScopeIsolation ==
    [][(st_call'.op = "close" /\ table # NULL /\ saved_table # NULL) =>
          /\ table' = saved_table
          /\ saved_table' = NULL
          /\ \A n \in names_in(table) \ names_in(saved_table) :
                 find_name([table |-> table', saved_table |-> saved_table',
                            curr_offset |-> curr_offset'], n) = NULL]_vars

\* C9 witness: a close has just destroyed a scope that declared a name its
\* enclosing scope, active again, does not declare.
C9_Witness ==
    /\ st_call.op = "close"
    /\ st_call.gone # {}
    /\ table # NULL
    /\ saved_table = NULL

\* C10: after init_symbol_table, with every close matching an earlier open,
\* no more than two scopes are ever live, and once every opened scope is
\* closed the active scope is the one init_symbol_table created, holding
\* every name inserted into it.
C10_GlobalScopeLifetime ==
    (hist.init /\ hist.clean) =>
        /\ hist.live <= 2
        /\ hist.depth = 0 =>
               /\ IsGlobal(table)
               /\ \A n \in hist.global_names : ht_search(tab(table), n) # NULL

\* C11: insert_name of a name the active scope already holds, or with no
\* active scope, returns FALSE, and the entry stored for that name (its
\* offset included), the names of the scope, the saved scope and
\* get_variables_width are as before the call.
C11_DuplicateDeclaration ==
    \A id \in Names, prop \in VariableProps \cup CallableProps, mem \in InsertMem :
        (table = NULL \/ entry_of(table, id) # NULL) =>
            LET r == insert_name(SymTab, id, prop, mem)
            IN  /\ r.ret = FALSE
                /\ entry_of(r.st.table, id) = entry_of(table, id)
                /\ names_in(r.st.table) = names_in(table)
                /\ r.st.saved_table = saved_table
                /\ get_variables_width(r.st) = get_variables_width(SymTab)

\* C11 witness: an insert_name has just returned FALSE in a scope that holds
\* every name of the harness, a variable with its offset among them.
C11_Witness ==
    /\ st_call.op = "insert"
    /\ ~st_call.ret
    /\ table # NULL
    /\ names_in(table) = Names
    /\ \E n \in Names : entry_of(table, n).offset = 1

\* C20: neither the active-scope pointer nor the saved-scope pointer refers
\* to a table that ht_free has freed.
C20_NoFreedScope ==
    /\ ~Dangling(table)
    /\ ~Dangling(saved_table)


(* ------------------------------ scanner.c ------------------------------ *)
(* Characters are their codes; the Token is a record whose fields          *)
(* get_token writes one at a time, a string being a tuple of codes.  Each  *)
(* function of scanner.c is an operator on a record c of the scanner's     *)
(* statics, the caller's Token and what the call has reported and stored.  *)
(* position and posit only feed the error messages and are left out, and   *)
(* malloc and realloc in process_string are taken to succeed.              *)

\* <stdio.h>
EOF == 0 - 1

\* <ctype.h> in the C locale
isdigit(c) == c \in 48..57

isalpha(c) == c \in 65..90 \/ c \in 97..122

isspace(c) == c = 32 \/ c \in 9..13

isascii(c) == c \in 0..127

\* <limits.h>, for an int of WordBits bits
INT_MAX == 2^(WordBits - 1) - 1

\* the int that holds the arithmetic result x: WordBits bits, two's complement
wrap(x) ==
    LET m == x % 2^WordBits
    IN  IF m > INT_MAX THEN m - 2^WordBits ELSE m

\* the reserved words, in the order of the array
reserved ==
    << [word |-> <<97, 110, 100>>, type |-> "TOK_AND"],
       [word |-> <<97, 114, 114, 97, 121>>, type |-> "TOK_ARRAY"],
       [word |-> <<98, 111, 111, 108>>, type |-> "TOK_BOOL"],
       [word |-> <<99, 104, 105, 108, 108, 97, 120>>, type |-> "TOK_CHILLAX"],
       [word |-> <<101, 108, 105, 102>>, type |-> "TOK_ELIF"],
       [word |-> <<101, 108, 115, 101>>, type |-> "TOK_ELSE"],
       [word |-> <<101, 110, 100>>, type |-> "TOK_END"],
       [word |-> <<102, 97, 108, 115, 101>>, type |-> "TOK_FALSE"],
       [word |-> <<105, 102>>, type |-> "TOK_IF"],
       [word |-> <<105, 110, 112, 117, 116>>, type |-> "TOK_INPUT"],
       [word |-> <<105, 110, 116>>, type |-> "TOK_INT"],
       [word |-> <<108, 101, 116>>, type |-> "TOK_LET"],
       [word |-> <<109, 97, 105, 110>>, type |-> "TOK_MAIN"],
       [word |-> <<110, 111, 116>>, type |-> "TOK_NOT"],
       [word |-> <<111, 114>>, type |-> "TOK_OR"],
       [word |-> <<111, 117, 116, 112, 117, 116>>, type |-> "TOK_OUTPUT"],
       [word |-> <<112, 114, 111, 103, 114, 97, 109>>, type |-> "TOK_PROGRAM"],
       [word |-> <<114, 101, 109>>, type |-> "TOK_REM"],
       [word |-> <<114, 101, 116, 117, 114, 110>>, type |-> "TOK_RETURN"],
       [word |-> <<116, 114, 117, 101>>, type |-> "TOK_TRUE"],
       [word |-> <<119, 104, 105, 108, 101>>, type |-> "TOK_WHILE"] >>

NUM_RESERVED_WORDS == Len(reserved)

\* the statics of scanner.c and the Token of the caller at the start of a
\* call; reported, halted and stores record what the call does
Scanner ==
    [src_file |-> src_file, ch |-> ch, cn |-> cn, ln |-> ln, token |-> token,
     reported |-> <<>>, halted |-> FALSE, stores |-> <<>>]

\* error.c is not among the sources.  leprintf reports at the current
\* position and does not return, except for the two messages after which the
\* scanner goes on to produce a token.
leprintf_returns(msg) == msg \in {"number too large", "identifier too long"}

leprintf(c, msg) ==
    [c EXCEPT !.reported = Append(@, msg), !.halted = ~leprintf_returns(msg)]

\* getc returns EOF at the end of the file, and again on every later call
next_char(c) ==
    LET got == IF c.src_file = <<>> THEN EOF ELSE Head(c.src_file)
    IN  [c EXCEPT
            !.src_file = IF @ = <<>> THEN @ ELSE Tail(@),
            !.ch = got,
            !.ln = IF got = 10 THEN @ + 1 ELSE @,
            !.cn = IF got = 10 THEN 0 ELSE @ + 1]

\* init_scanner(in_file)
init_scanner(in_file) ==
    next_char([src_file |-> in_file, ch |-> 0, cn |-> 0, ln |-> 1,
               token |-> [type |-> "none", value |-> 0, lexeme |-> <<>>, string |-> <<>>],
               reported |-> <<>>, halted |-> FALSE, stores |-> <<>>])

\* the loop of process_number with d never refreshed (no line 293): every
\* digit counts as the first one
RECURSIVE number_loop_staledigit(_, _, _)
number_loop_staledigit(c, value, d) ==
    LET v_updated == wrap((10 * value) + d)
    IN  IF v_updated < 0 \/ v_updated > INT_MAX
        THEN [c |-> leprintf(c, "number too large"), value |-> value]
        ELSE LET c1 == next_char(c)
             IN  IF ~isdigit(c1.ch) THEN [c |-> c1, value |-> v_updated]
                 ELSE number_loop_staledigit(c1, v_updated, d)

\* the while (true) loop of process_number, entered with value and d
RECURSIVE number_loop(_, _, _)
number_loop(c, value, d) ==
    LET v_updated == wrap((10 * value) + d)
    IN  IF v_updated < 0 \/ v_updated > INT_MAX
        THEN [c |-> leprintf(c, "number too large"), value |-> value]
        ELSE LET c1 == next_char(c)
             IN  IF ~isdigit(c1.ch) THEN [c |-> c1, value |-> v_updated]
                 ELSE number_loop(c1, v_updated, c1.ch - 48)

process_number(c) ==
    LET r == number_loop(c, 0, c.ch - 48)
    IN  IF r.c.halted THEN r.c
        ELSE [r.c EXCEPT !.token.type = "TOK_NUM", !.token.value = r.value]

\* the condition of the do-while of process_word
isword(c) == c \in 48..57 \/ isalpha(c) \/ c = 95

\* the do-while of process_word; lexeme holds the x characters stored so far
RECURSIVE word_loop(_, _, _)
word_loop(c, lexeme, x) ==
    IF x >= MAX_ID_LEN
    THEN [c |-> leprintf(c, "identifier too long"), lexeme |-> lexeme]
    ELSE LET c1 == next_char(c)
             lexeme1 == Append(lexeme, c.ch)
         IN  IF isword(c1.ch) THEN word_loop(c1, lexeme1, x + 1)
             ELSE [c |-> c1, lexeme |-> lexeme1]

\* the binary search with highest = middle - 1 on the lower half: the word
\* below middle is skipped
RECURSIVE reserved_search_skip(_, _, _)
reserved_search_skip(lexeme, lowest, highest) ==
    IF lowest < highest
    THEN LET middle == lowest + ((highest - lowest) \div 2)
             cmp == strcmp(lexeme, reserved[middle + 1].word, 1)
         IN  IF cmp = 0 THEN reserved[middle + 1].type
             ELSE IF cmp < 0 THEN reserved_search_skip(lexeme, lowest, middle - 1)
             ELSE reserved_search_skip(lexeme, middle + 1, highest)
    ELSE "TOK_ID"

\* the binary search of process_word: the type of the reserved word equal to
\* lexeme, TOK_ID when the search ends without one
RECURSIVE reserved_search(_, _, _)
reserved_search(lexeme, lowest, highest) ==
    IF lowest < highest
    THEN LET middle == lowest + ((highest - lowest) \div 2)
             cmp == strcmp(lexeme, reserved[middle + 1].word, 1)
         IN  IF cmp = 0 THEN reserved[middle + 1].type
             ELSE IF cmp < 0 THEN reserved_search(lexeme, lowest, middle)
             ELSE reserved_search(lexeme, middle + 1, highest)
    ELSE "TOK_ID"

process_word(c) ==
    LET r == word_loop(c, <<>>, 0)
    IN  IF r.c.halted THEN r.c
        ELSE [r.c EXCEPT
                 !.token.type = reserved_search(r.lexeme, 0, NUM_RESERVED_WORDS),
                 !.token.lexeme = r.lexeme]

\* skip_comment returning at the first '}' whatever the nesting: an inner
\* '{' is skipped like any other character
RECURSIVE skip_comment_flat(_)
skip_comment_flat(c) ==
    LET c1 == next_char(c)
    IN  IF c1.ch = EOF THEN leprintf(c1, "comment not closed")
        ELSE IF c1.ch = 125 THEN c1
        ELSE skip_comment_flat(c1)

\* skip_comment is entered with ch = '{' and returns with ch = '}', the
\* closing brace not yet consumed
RECURSIVE skip_comment(_)
RECURSIVE comment_loop(_)
comment_loop(c) ==
    IF c.ch = EOF THEN leprintf(c, "comment not closed")
    ELSE IF c.ch = 123
    THEN LET c1 == skip_comment(c)
         IN  IF c1.halted THEN c1 ELSE comment_loop(next_char(c1))
    ELSE IF c.ch = 125 THEN c
    ELSE comment_loop(next_char(c))

skip_comment(c) == comment_loop(next_char(c))

\* a write to updated_string[index] while the buffer holds nstring bytes
store(c, index, nstring) == [c EXCEPT !.stores = Append(@, <<index, nstring>>)]

\* lines 311-314: the clearing loop, then the write at MAX_INIT_STR_LEN
RECURSIVE clear_loop(_, _, _)
clear_loop(c, j, nstring) ==
    IF j < MAX_INIT_STR_LEN THEN clear_loop(store(c, j, nstring), j + 1, nstring)
    ELSE store(c, MAX_INIT_STR_LEN, nstring)

\* the while (ch != '"') loop of process_string; buf is what the loop has
\* stored at indices 0..i-1.  A store beyond the buffer is recorded in
\* stores and the scan goes on as it does when the allocator's slack takes
\* the byte.
RECURSIVE string_loop(_, _, _, _)
string_loop(c, buf, i, nstring) ==
    IF c.ch = 34 THEN [c |-> c, buf |-> buf]
    ELSE IF (~isascii(c.ch) \/ c.ch < 32) /\ c.ch # 10 /\ c.ch # EOF
    THEN [c |-> leprintf(c, "non-printable character in string"), buf |-> buf]
    ELSE IF c.ch = 10
    THEN [c |-> leprintf(c, "non-printable character in string"), buf |-> buf]
    ELSE
        LET escape == c.ch = 92
            c1 == IF escape THEN next_char(store(c, i, nstring)) ELSE c
            buf1 == IF escape THEN Append(buf, 92) ELSE buf
            i1 == IF escape THEN i + 1 ELSE i
        IN  IF escape /\ c1.ch \notin {110, 116, 34, 92}
            THEN [c |-> leprintf(c1, "illegal escape code in string"), buf |-> buf1]
            ELSE
                LET nstring1 == IF i1 = nstring THEN nstring * 2 ELSE nstring
                    c2 == next_char(store(c1, i1, nstring1))
                    buf2 == Append(buf1, c1.ch)
                IN  IF c2.ch = EOF
                    THEN [c |-> leprintf(c2, "string not closed"), buf |-> buf2]
                    ELSE string_loop(c2, buf2, i1 + 1, nstring1)

\* process_string is entered with ch the character after the opening quote.
\* token->string is the buffer: the characters stored, which the zeroes
\* of the clearing loop end while there are fewer than MAX_INIT_STR_LEN.
process_string(c) ==
    LET r == string_loop(clear_loop(c, 0, MAX_INIT_STR_LEN), <<>>, 0, MAX_INIT_STR_LEN)
    IN  IF r.c.halted THEN r.c
        ELSE next_char([r.c EXCEPT !.token.type = "TOK_STR", !.token.string = r.buf])

\* the while (isspace(ch)) loop of get_token: each of its branches calls
\* next_char
RECURSIVE skip_space(_)
skip_space(c) == IF isspace(c.ch) THEN skip_space(next_char(c)) ELSE c

\* the cases of the switch that emit a token for one character:
\* = + * : , [ ] ( ) ;  (line 145 gives '*' the string "+")
one_char ==
    (61 :> [type |-> "TOK_EQ", string |-> <<61>>]) @@
    (43 :> [type |-> "TOK_PLUS", string |-> <<43>>]) @@
    (42 :> [type |-> "TOK_MUL", string |-> <<43>>]) @@
    (58 :> [type |-> "TOK_COLON", string |-> <<58>>]) @@
    (44 :> [type |-> "TOK_COMMA", string |-> <<44>>]) @@
    (91 :> [type |-> "TOK_LBRACK", string |-> <<91>>]) @@
    (93 :> [type |-> "TOK_RBRACK", string |-> <<93>>]) @@
    (40 :> [type |-> "TOK_LPAREN", string |-> <<40>>]) @@
    (41 :> [type |-> "TOK_RPAREN", string |-> <<41>>]) @@
    (59 :> [type |-> "TOK_SEMICOLON", string |-> <<59>>])

\* the cases '>', '<', '/', '-': the completing character, and the tokens
\* with and without it
two_char ==
    (62 :> [completing |-> 61, two |-> "TOK_GE", one |-> "TOK_GT"]) @@
    (60 :> [completing |-> 61, two |-> "TOK_LE", one |-> "TOK_LT"]) @@
    (47 :> [completing |-> 61, two |-> "TOK_NE", one |-> "TOK_DIV"]) @@
    (45 :> [completing |-> 62, two |-> "TOK_ARROW", one |-> "TOK_MINUS"])

\* a two-character case that consumes the next character whatever it is
lookahead_token_greedy(c) ==
    LET first == c.ch
        c1 == next_char(c)
    IN  IF c1.ch = two_char[first].completing
        THEN next_char([c1 EXCEPT !.token.type = two_char[first].two,
                                  !.token.string = <<first, c1.ch>>])
        ELSE next_char([c1 EXCEPT !.token.type = two_char[first].one,
                                  !.token.string = <<first>>])

\* lines 193-236: next_char, then the two-character token and a second
\* next_char if ch completes it, else the one-character token
lookahead_token(c) ==
    LET first == c.ch
        c1 == next_char(c)
    IN  IF c1.ch = two_char[first].completing
        THEN next_char([c1 EXCEPT !.token.type = two_char[first].two,
                                  !.token.string = <<first, c1.ch>>])
        ELSE [c1 EXCEPT !.token.type = two_char[first].one,
                        !.token.string = <<first>>]

RECURSIVE get_token(_)
get_token(c) ==
    LET c0 == skip_space(c)
    IN  IF c0.ch = EOF THEN [c0 EXCEPT !.token.type = "TOK_EOF"]
        ELSE IF isalpha(c0.ch) \/ c0.ch = 95 THEN process_word(c0)
        ELSE IF isdigit(c0.ch) THEN process_number(c0)
        ELSE IF c0.ch = 34 THEN process_string(next_char(c0))
        ELSE IF c0.ch = 123
        THEN LET c1 == skip_comment(c0)
             IN  IF c1.halted THEN c1 ELSE get_token(next_char(c1))
        ELSE IF c0.ch \in DOMAIN one_char
        THEN next_char([c0 EXCEPT !.token.type = one_char[c0.ch].type,
                                  !.token.string = one_char[c0.ch].string])
        ELSE IF c0.ch = 46
        THEN LET c1 == next_char(c0)
             IN  IF c1.ch = 46
                 THEN next_char([c1 EXCEPT !.token.type = "TOK_DOTDOT",
                                           !.token.string = <<46, 46>>])
                 ELSE leprintf(c1, "illegal character")
        ELSE IF c0.ch \in DOMAIN two_char THEN lookahead_token(c0)
        ELSE leprintf(c0, "illegal character")

(* ---------------------------- scanner harness --------------------------- *)

\* every string over alphabet of at most n characters
Strings(alphabet, n) == UNION {[1..k -> alphabet] : k \in 0..n}

\* a decimal literal between white space: digits 0 1 2 6 7 8
NumberInputs ==
    {pre \o digits \o post :
        pre \in {<<>>, <<9, 10, 32>>},
        digits \in Strings({48, 49, 50, 54, 55, 56}, NumLen) \ {<<>>},
        post \in {<<>>, <<32>>}}

ReservedWords == {reserved[i].word : i \in 1..NUM_RESERVED_WORDS}

\* the reserved words; each with one character replaced (by a, z, _, 1 or
\* its upper case), dropped, or added at the end (a, z, _, 1 or a blank);
\* the words of up to three characters over a n d A _ 1; a word of
\* MAX_ID_LEN + 1 letters
WordInputs ==
    ReservedWords
    \cup {[w EXCEPT ![i] = o] : w \in ReservedWords, i \in 1..7, o \in {97, 122, 95, 49}}
    \cup UNION {{[w EXCEPT ![i] = w[i] - 32] : i \in 1..Len(w)} : w \in ReservedWords}
    \cup UNION {{SubSeq(w, 1, i - 1) \o SubSeq(w, i + 1, Len(w)) : i \in 1..Len(w)} :
                    w \in ReservedWords}
    \cup {Append(w, o) : w \in ReservedWords, o \in {97, 122, 95, 49, 32}}
    \cup (Strings({97, 110, 100, 65, 95, 49}, 3) \ {<<>>})
    \cup {[i \in 1..(MAX_ID_LEN + 1) |-> 97]}

\* "end": what follows the comments
EndWord == <<101, 110, 100>>

\* { a { b } c }end, and every string over { } a and the blank followed by end
CommentInputs ==
    {<<123, 32, 97, 32, 123, 32, 98, 32, 125, 32, 99, 32, 125>> \o EndWord}
    \cup {body \o EndWord : body \in Strings({123, 125, 97, 32}, CommentLen)}

\* "ab\"c", and an opening quote followed by every string over a \ " n
StringInputs ==
    {<<34, 97, 98, 92, 34, 99, 34>>}
    \cup {<<34>> \o body : body \in Strings({97, 92, 34, 110}, StringLen)}

\* every string over > < / - = 5 and the blank
OperatorInputs == Strings({62, 60, 47, 45, 61, 53, 32}, OperatorLen)

\* every string of up to two of = + * : , . [ ] ( ) ; # a 1
PunctuationInputs ==
    Strings({61, 43, 42, 58, 44, 46, 91, 93, 40, 41, 59, 35, 97, 49}, 2)

Inputs ==
    NumberInputs \cup WordInputs \cup CommentInputs \cup StringInputs
        \cup OperatorInputs \cup PunctuationInputs

\* init_scanner on one of a set of inputs
InitOn(inputs) ==
    /\ STIdle
    /\ ht = NULL
    /\ ht_call = [present |-> FALSE, due |-> FALSE, failed |-> "none", ret |-> "none"]
    /\ inserted = [k \in Keys |-> NULL]
    /\ \E in_file \in inputs :
           \E c \in {init_scanner(in_file)} :
               /\ src_file = c.src_file
               /\ ch = c.ch
               /\ cn = c.cn
               /\ ln = c.ln
               /\ token = c.token
               /\ sc_call = [input |-> in_file, calls |-> 0, at_eof |-> 0,
                             reported |-> <<>>, halted |-> FALSE, stores |-> <<>>,
                             tokens |-> <<>>]

InitSC == InitOn(Inputs)

\* a call that has written beyond updated_string (lines 314, 335, 364)
overflowed(c) == \E k \in 1..Len(c.stores) : c.stores[k][1] >= c.stores[k][2]

\* what a call can come to.  A write beyond the buffer is undefined: the
\* allocator's slack may take the bytes and the call return as computed, or
\* the process may end in the call (a fault, or the abort of an allocator
\* that finds its heap damaged) with nothing reported and no token.
outcomes(c) ==
    IF overflowed(c) /\ ~c.halted THEN {c, [c EXCEPT !.halted = TRUE]} ELSE {c}

\* one get_token call of the parser.  A call in which leprintf does not
\* return, or in which the process ends, is the last: no token comes back
\* and no call follows.
GetToken ==
    /\ ~sc_call.halted
    /\ sc_call.at_eof < MaxEofCalls
    /\ \E c \in outcomes(get_token(Scanner)) :
           /\ src_file' = c.src_file
           /\ ch' = c.ch
           /\ cn' = c.cn
           /\ ln' = c.ln
           /\ token' = IF c.halted THEN token ELSE c.token
           /\ sc_call' = [sc_call EXCEPT
                             !.calls = @ + 1,
                             !.at_eof = IF ~c.halted /\ c.token.type = "TOK_EOF"
                                        THEN @ + 1 ELSE @,
                             !.reported = c.reported,
                             !.halted = c.halted,
                             !.stores = c.stores,
                             !.tokens = IF c.halted THEN @ ELSE Append(@, c.token)]
           /\ UNCHANGED <<htvars, stvars>>

NextSC == GetToken

SpecSC == InitSC /\ [][NextSC]_vars

\* every text of up to LiveLen characters over a 1 blank newline " \ { } / =
LiveInputs == Strings({97, 49, 32, 10, 34, 92, 123, 125, 47, 61}, LiveLen)

InitSCL == InitOn(LiveInputs)

\* the parser asks for tokens until it has seen TOK_EOF: a call that can be
\* made is made
SpecSCL == InitSCL /\ [][NextSC]_vars /\ WF_vars(GetToken)

(* ---------------------------- scanner claims ---------------------------- *)

\* the character at index i of the input, EOF beyond its end
CharAt(i) == IF i \in 1..Len(sc_call.input) THEN sc_call.input[i] ELSE EOF

\* the value of a digit string, digit by position
RECURSIVE DecimalValue(_)
DecimalValue(digits) ==
    IF digits = <<>> THEN 0
    ELSE (digits[1] - 48) * 10^(Len(digits) - 1) + DecimalValue(Tail(digits))

\* white space, one run of digits, white space
OneLiteral(in) ==
    \E i, j \in 1..Len(in) :
        /\ i <= j
        /\ \A k \in 1..Len(in) : IF k \in i..j THEN isdigit(in[k]) ELSE isspace(in[k])

\* C12: on an input of white space and one decimal literal of value v <=
\* INT_MAX, nothing is reported, the first get_token returns TOK_NUM with
\* value v and the second returns TOK_EOF.
C12_IntegerLiteralValue ==
    LET in == sc_call.input
        v == DecimalValue(SelectSeq(in, isdigit))
    IN  (OneLiteral(in) /\ v <= INT_MAX) =>
            /\ ~sc_call.halted
            /\ sc_call.reported = <<>>
            /\ sc_call.calls >= 1 =>
                   /\ sc_call.tokens[1].type = "TOK_NUM"
                   /\ sc_call.tokens[1].value = v
            /\ sc_call.calls >= 2 => sc_call.tokens[2].type = "TOK_EOF"

\* C12 witness: both calls made on a literal of three significant digits
\* with white space before and after it.
C12_Witness ==
    /\ sc_call.calls = 2
    /\ OneLiteral(sc_call.input)
    /\ isspace(sc_call.input[1])
    /\ isspace(sc_call.input[Len(sc_call.input)])
    /\ DecimalValue(SelectSeq(sc_call.input, isdigit)) \in 100..INT_MAX
    /\ token.type = "TOK_EOF"

\* C13: on a digit run whose value exceeds INT_MAX, the first get_token
\* reports "number too large", and a TOK_NUM it returns carries the value of
\* a prefix of the run, never a wrapped one.
C13_OverflowDetection ==
    LET in == sc_call.input
    IN  (in # <<>> /\ (\A k \in 1..Len(in) : isdigit(in[k]))
            /\ DecimalValue(in) > INT_MAX /\ sc_call.calls = 1) =>
            /\ sc_call.reported = <<"number too large">>
            /\ token.type = "TOK_NUM" =>
                   \E k \in 1..Len(in) : token.value = DecimalValue(SubSeq(in, 1, k))

\* the token type of a word by its place in the list of reserved words
KeywordOf(w) ==
    IF \E i \in 1..Len(reserved) : reserved[i].word = w
    THEN reserved[CHOOSE i \in 1..Len(reserved) : reserved[i].word = w].type
    ELSE "TOK_ID"

\* one word and nothing else
OneWord(in) ==
    /\ in # <<>>
    /\ Len(in) <= MAX_ID_LEN
    /\ isalpha(in[1]) \/ in[1] = 95
    /\ \A k \in 1..Len(in) : isalpha(in[k]) \/ isdigit(in[k]) \/ in[k] = 95

\* C14: on an input that is one word within MAX_ID_LEN, the first get_token
\* returns the word's own keyword type if the word is a reserved word, in
\* exactly that spelling, and TOK_ID otherwise; the lexeme is the word.
C14_KeywordClassification ==
    (OneWord(sc_call.input) /\ sc_call.calls >= 1) =>
        /\ ~sc_call.halted
        /\ sc_call.tokens[1].type = KeywordOf(sc_call.input)
        /\ sc_call.tokens[1].type # "TOK_ID" <=> sc_call.input \in ReservedWords
        /\ sc_call.tokens[1].lexeme = sc_call.input

\* C14 witness: "return" has come back as TOK_RETURN.
C14_Witness ==
    /\ sc_call.calls = 1
    /\ sc_call.input = <<114, 101, 116, 117, 114, 110>>
    /\ token.type = "TOK_RETURN"

\* the index of the '}' that closes the comment opened before index i, at
\* nesting depth, by counting braces; 0 when there is none
RECURSIVE MatchClose(_, _, _)
MatchClose(s, i, depth) ==
    IF i > Len(s) THEN 0
    ELSE IF s[i] = 123 THEN MatchClose(s, i + 1, depth + 1)
    ELSE IF s[i] = 125
    THEN IF depth = 1 THEN i ELSE MatchClose(s, i + 1, depth - 1)
    ELSE MatchClose(s, i + 1, depth)

\* C15: on an input that opens with a comment whose braces balance, the
\* first get_token does what it does on the text after the '}' that matches
\* the opening '{': the same token, lookahead and rest of input, or the same
\* failure; when that text is "end", it returns TOK_END at end-of-input.
C15_CommentTransparency ==
    LET in == sc_call.input
        m == MatchClose(in, 1, 0)
    IN  (in # <<>> /\ in[1] = 123 /\ m > 0 /\ sc_call.calls = 1) =>
            LET after == SubSeq(in, m + 1, Len(in))
                r == get_token(init_scanner(after))
            IN  /\ sc_call.halted = r.halted
                /\ sc_call.reported = r.reported
                /\ ~sc_call.halted =>
                       /\ token = r.token
                       /\ ch = r.ch
                       /\ src_file = r.src_file
                /\ after = EndWord =>
                       /\ ~sc_call.halted
                       /\ token.type = "TOK_END"
                       /\ ch = EOF

\* C15 witness: { a { b } c }end has yielded TOK_END.
C15_Witness ==
    /\ sc_call.calls = 1
    /\ sc_call.input =
           <<123, 32, 97, 32, 123, 32, 98, 32, 125, 32, 99, 32, 125>> \o EndWord
    /\ token.type = "TOK_END"
    /\ ch = EOF

\* the index of the first quote from i on that no backslash escapes; 0 when
\* there is none
RECURSIVE StringEnd(_, _)
StringEnd(s, i) ==
    IF i > Len(s) THEN 0
    ELSE IF s[i] = 92 THEN StringEnd(s, i + 2)
    ELSE IF s[i] = 34 THEN i
    ELSE StringEnd(s, i + 1)

\* the text of a literal with each \" turned into "
RECURSIVE Normalized(_)
Normalized(body) ==
    IF body = <<>> THEN <<>>
    ELSE IF body[1] = 92 /\ Len(body) >= 2 /\ body[2] = 34
    THEN <<34>> \o Normalized(SubSeq(body, 3, Len(body)))
    ELSE <<body[1]>> \o Normalized(Tail(body))

\* C16: on an input that opens with a string literal whose only escapes are
\* \", the first get_token returns TOK_STR up to the first unescaped quote,
\* its payload the text with " for each \" and no backslash, and leaves as
\* lookahead the character after the closing quote.
C16_StringEscapeNormalization ==
    LET in == sc_call.input
        e == StringEnd(in, 2)
        body == SubSeq(in, 2, e - 1)
    IN  (in # <<>> /\ in[1] = 34 /\ e > 0 /\ sc_call.calls = 1
            /\ (\A k \in 1..Len(body) : body[k] \in {97, 98, 99, 110, 34, 92})
            /\ (\A k \in 1..Len(body) :
                   body[k] = 92 => (k < Len(body) /\ body[k + 1] = 34
                                       /\ (k = 1 \/ body[k - 1] # 92)))) =>
            /\ ~sc_call.halted
            /\ token.type = "TOK_STR"
            /\ token.string = Normalized(body)
            /\ 92 \notin {token.string[k] : k \in 1..Len(token.string)}
            /\ ch = CharAt(e + 1)

\* the index in the input of the lookahead ch
Ahead(lookahead, rest) ==
    IF lookahead = EOF THEN Len(sc_call.input) + 1
    ELSE Len(sc_call.input) - Len(rest)

\* the index of the first character from i on that is not white space
RECURSIVE FirstNonBlank(_)
FirstNonBlank(i) == IF isspace(CharAt(i)) THEN FirstNonBlank(i + 1) ELSE i

\* C17: a get_token that meets one of > < / - as the first character after
\* any white space returns the two-character token (GE, LE, NE, ARROW) and
\* moves the lookahead two characters on when the next character is = = = >
\* respectively; else it returns the one-character token (GT, LT, DIV,
\* MINUS) and the lookahead is that next character.
C17_OperatorLookahead ==
    [][\A op \in {<<62, 61, "TOK_GE", "TOK_GT">>, <<60, 61, "TOK_LE", "TOK_LT">>,
                  <<47, 61, "TOK_NE", "TOK_DIV">>, <<45, 62, "TOK_ARROW", "TOK_MINUS">>} :
           LET at == FirstNonBlank(Ahead(ch, src_file))
           IN  (CharAt(at) = op[1] /\ sc_call'.calls = sc_call.calls + 1) =>
                   /\ ~sc_call'.halted
                   /\ IF CharAt(at + 1) = op[2]
                      THEN /\ token'.type = op[3]
                           /\ Ahead(ch', src_file') = at + 2
                           /\ ch' = CharAt(at + 2)
                      ELSE /\ token'.type = op[4]
                           /\ Ahead(ch', src_file') = at + 1
                           /\ ch' = CharAt(at + 1)]_vars

\* C17 witness: 5/ has yielded TOK_NUM 5, TOK_DIV and TOK_EOF.
C17_Witness ==
    /\ sc_call.input = <<53, 47>>
    /\ sc_call.calls = 3
    /\ sc_call.tokens[1].type = "TOK_NUM"
    /\ sc_call.tokens[1].value = 5
    /\ sc_call.tokens[2].type = "TOK_DIV"
    /\ sc_call.tokens[3].type = "TOK_EOF"

\* C19: every write process_string makes to its buffer, the clearing writes
\* and the backslash of an escape included, is at an index below the
\* capacity the buffer has at that write.
C19_StringBufferBounds ==
    \A k \in 1..Len(sc_call.stores) : sc_call.stores[k][1] < sc_call.stores[k][2]

====
